---- MODULE Spec2Model ----
(***************************************************************************)
(* A model of pygigas (src/pygigas.py): the Gigas API client.  One Gigas   *)
(* instance is driven sequentially by one caller.  Every HTTP request the  *)
(* client issues is appended to `requests`, the transport's view of the    *)
(* current operation; the responses are the inputs, drawn from small sets. *)
(***************************************************************************)
EXTENDS Integers, Sequences, FiniteSets, TLC

\* ---------------------------------------------------------------- bounds
\* Largest max_retries a direct caller of _wait_for_transaction passes.
MaxRetries == 3
\* The code counts every 401 to the POST of create_vm, without limit; the
\* transport answers no further 401 once auth_retries has reached this,
\* which is past the 2 the code compares the counter with.
MaxAuthRetries == 3
\* Longest list the network_interfaces endpoint returns.
MaxInterfaces == 1
\* Longest list the ip_addresses endpoint returns.
MaxIps == 1
\* In SpecScan: the longest network_interfaces and /ip_addresses answers.
ScanMaxInterfaces == 2
ScanMaxIps == 3

\* ------------------------------------------------------ program constants
\* max_retries=24, the default of _wait_for_transaction.
DefaultMaxRetries == 24
\* r.codes.unauthorized
Unauthorized == 401
\* The threshold of `if self.auth_retries < 2`.
AuthRetryLimit == 2

api_endpoint == "https://api.madrid.gigas.com"

\* ------------------------------------------------------------ the inputs
Tokens == {"tokA", "tokB"}
TransactionIds == {42}
MachineIds == {99, 5}
InterfaceIds == {1, 2}
Addresses == {"10.0.0.1", "10.0.0.2"}
StatusCodes == {200, Unauthorized}

\* The payload dict of create_vm, one per set of arguments.
Payloads ==
  { [memory |-> 512, cpus |-> 1, hostname |-> h, label |-> "test-label",
     primary_disk_size |-> 20, swap_disk_size |-> 1, template_id |-> 70]
    : h \in {"test", "other"} }

\* The payload dict of the token request.
Credentials == [login |-> "user", password |-> "pswd"]
NoData == [none |-> TRUE]

\* A JSON body is a record: `keys` are the keys present, the other fields
\* their values (a filler when the key is absent).
TokenBodies ==
  { [keys |-> {"token"}, token |-> t] : t \in Tokens }
  \cup { [keys |-> {}, token |-> ""] }

\* Answers to POST /virtual_machine and DELETE /virtual_machine/{id}.
QueuedResponses ==
  { [status_code |-> c, keys |-> {"queue_token", "resource"},
     queue_token |-> q, resource_id |-> m]
    : c \in StatusCodes, q \in TransactionIds, m \in MachineIds }
  \cup { [status_code |-> c, keys |-> {}, queue_token |-> 0, resource_id |-> 0]
         : c \in StatusCodes }

\* Answers to GET /transaction/{id}/status.
StatusBody(e, s) ==
  [keys |-> (IF e = "" THEN {} ELSE {"error"})
            \cup (IF s = "" THEN {} ELSE {"status"}),
   error |-> e, status |-> s]
StatusBodies ==
  { StatusBody("", ""), StatusBody("", "pending"), StatusBody("", "complete"),
    StatusBody("Transaction not found", ""), StatusBody("Internal error", ""),
    StatusBody("Internal error", "complete") }

\* Answers to GET /virtual_machine/{id}: the attribute mapping.
EmptyDict == [keys |-> {}, id |-> 0, error |-> "", ip_addresses |-> <<>>]
VmBodies ==
  { [keys |-> {"id"}, id |-> m, error |-> "", ip_addresses |-> <<>>]
    : m \in MachineIds }
  \cup { [keys |-> {"error"}, id |-> 0, error |-> "Not found",
          ip_addresses |-> <<>>],
         EmptyDict }

SeqsUpTo(S, n) == UNION { [1..k -> S] : k \in 0..n }

\* Answers to GET .../network_interfaces: the list of interface ids.
InterfaceLists == SeqsUpTo(InterfaceIds, MaxInterfaces)
\* Answers to GET /ip_addresses.
IpEntries == [interface_id : InterfaceIds, address : Addresses]
IpLists == SeqsUpTo(IpEntries, MaxIps)

\* The answers of SpecScan: longer lists, and an entry of /ip_addresses
\* that belongs to an interface of another machine (id 3).
ScanInterfaceLists == SeqsUpTo(InterfaceIds, ScanMaxInterfaces)
ScanIpEntries ==
  { [interface_id |-> i, address |-> "10.0.0." \o ToString(i)] :
      i \in InterfaceIds \cup {3} }
ScanIpLists == SeqsUpTo(ScanIpEntries, ScanMaxIps)

\* ------------------------------------------------------------- the state
VARIABLES
  pc,             \* where the client is: a statement of the running call
  op,             \* the top-level operation running, or run last
  token,          \* self.token
  headers,        \* self.headers
  auth_retries,   \* self.auth_retries
  requests,       \* requests issued (and sleeps) since the operation began
  codes,          \* status codes of the answers to its POSTs and DELETE
  responses,      \* status bodies _wait_for_transaction has received
  payload,        \* create_vm: the payload local
  transaction_id, \* the transaction_id local / parameter
  machine_id,     \* the machine_id local / parameter
  num_retries,    \* _wait_for_transaction: num_retries
  max_retries,    \* _wait_for_transaction: max_retries
  transaction_result, \* what _wait_for_transaction returned ("" before)
  vm_attributes,  \* get_machine_info: vm_attributes
  interface_ids,  \* get_machine_info: what the generator has yet to yield
  outcome,        \* of the operation: "running", "returned", "raised"
  exc,            \* the exception raised, "" if none
  retval,         \* the value returned, as a tag
  vm,             \* the caller's vm: create_vm's result, delete_vm's argument
  token_updates,  \* calls of _update_temporary_token on this instance so far
  threads         \* SpecConcurrent: where each concurrent caller is

vars == <<pc, op, token, headers, auth_retries, requests, codes, responses,
          payload,
          transaction_id, machine_id, num_retries, max_retries,
          transaction_result, vm_attributes, interface_ids, outcome, exc,
          retval, vm, token_updates, threads>>

\* ------------------------------------------------------------- helpers
\* "Gigas token=" + self.token
AuthorizationHeader(t) == "Gigas token=" \o t

\* A headers dict as the transport sees it.
HeaderItems(h) ==
  { <<"Authorization", h.Authorization>>, <<"Accept", h.Accept>> }

\* self.api_endpoint + "/transaction/" + str(transaction_id) + "/status"
StatusUrl(tid) == api_endpoint \o "/transaction/" \o ToString(tid) \o "/status"
\* self.api_endpoint + "/virtual_machine/" + str(machine_id)
MachineUrl(mid) == api_endpoint \o "/virtual_machine/" \o ToString(mid)
CreateUrl == api_endpoint \o "/virtual_machine"

Request(method, url, hdrs, data) ==
  [method |-> method, url |-> url, headers |-> hdrs, data |-> data]

TokenRequest == Request("POST", api_endpoint \o "/token", {}, Credentials)
CreateRequest(p, h) == Request("POST", CreateUrl, HeaderItems(h), p)
StatusRequest(tid, h) == Request("GET", StatusUrl(tid), HeaderItems(h), NoData)
MachineRequest(mid, h) ==
  Request("GET", MachineUrl(mid), HeaderItems(h), NoData)
InterfacesRequest(mid, h) ==
  Request("GET", MachineUrl(mid) \o "/network_interfaces", HeaderItems(h),
          NoData)
IpAddressesRequest(h) ==
  Request("GET", api_endpoint \o "/ip_addresses", HeaderItems(h), NoData)
DeleteRequest(mid, h) ==
  Request("DELETE", MachineUrl(mid), HeaderItems(h), NoData)

\* Mutants of Classify: "complete" never recognised; no special case for
\* "Transaction not found"; the status field looked at before the error.
Classify_CompleteMissed(body) ==
  IF "error" \in body.keys
    THEN IF body.error = "Transaction not found" THEN "Not found" ELSE "Error"
    ELSE IF "status" \notin body.keys THEN "KeyError"
    ELSE "Retry"
Classify_NotFoundAsError(body) ==
  IF "error" \in body.keys THEN "Error"
    ELSE IF "status" \notin body.keys THEN "KeyError"
    ELSE IF body.status = "complete" THEN "Complete"
    ELSE "Retry"
Classify_StatusFirst(body) ==
  IF "status" \in body.keys /\ body.status = "complete" THEN "Complete"
    ELSE IF "error" \in body.keys
      THEN IF body.error = "Transaction not found" THEN "Not found"
           ELSE "Error"
    ELSE IF "status" \notin body.keys THEN "KeyError"
    ELSE "Retry"

\* The classification of one status body by the if/elif/else of the loop.
Classify(body) ==
  IF "error" \in body.keys
    THEN IF body.error = "Transaction not found" THEN "Not found" ELSE "Error"
    ELSE IF "status" \notin body.keys THEN "KeyError"
    ELSE IF body.status = "complete" THEN "Complete"
    ELSE "Retry"

\* Mutants of TooManyRetries: one poll too many, one too few.
TooManyRetries_Late(n, max) == n > max
TooManyRetries_Early(n, max) == n >= max - 1

\* if (num_retries >= max_retries)
TooManyRetries(n, max) == n >= max

\* Mutant of MayRefresh: the second 401 counted still refreshes.
MayRefresh_OffByOne(n) == n <= AuthRetryLimit

\* if self.auth_retries < 2
MayRefresh(n) == n < AuthRetryLimit

\* Mutant of FetchAfterWait: "Not found" taken for a failure.
FetchAfterWait_CompleteOnly(result) == result = "Complete"

\* (transaction_result == "Complete") or (transaction_result == "Not found")
FetchAfterWait(result) == result = "Complete" \/ result = "Not found"

\* `x in gen` on a generator over the sequence g: TRUE and what is left
\* after x when x is yielded, FALSE and nothing left otherwise.
FirstIndex(g, x) ==
  IF \E i \in 1..Len(g) : g[i] = x
    THEN CHOOSE i \in 1..Len(g) : g[i] = x /\ \A j \in 1..(i - 1) : g[j] # x
    ELSE 0
GenContains(g, x) == FirstIndex(g, x) > 0
GenRest(g, x) ==
  IF FirstIndex(g, x) > 0 THEN SubSeq(g, FirstIndex(g, x) + 1, Len(g))
  ELSE <<>>

\* The for loop over the ip list: ip_addresses collected so far in acc.
RECURSIVE ScanIps(_, _, _)
ScanIps(ips, g, acc) ==
  IF ips = <<>> THEN acc
  ELSE ScanIps(Tail(ips), GenRest(g, Head(ips).interface_id),
               IF GenContains(g, Head(ips).interface_id)
                 THEN Append(acc, Head(ips).address) ELSE acc)

\* vm_attributes["ip_addresses"] = ip_addresses
WithIpAddresses(attrs, ips) ==
  [attrs EXCEPT !.keys = @ \cup {"ip_addresses"}, !.ip_addresses = ips]

\* The values the caller's vm can hold.
Unbound == [type |-> "unbound", attrs |-> EmptyDict]
FalseValue == [type |-> "bool", attrs |-> EmptyDict]
\* GigasVM(vm_attributes): setattr of every key/value pair.
GigasVM(attrs) == [type |-> "GigasVM", attrs |-> attrs]

\* What create_vm can have returned to a caller: False, or the GigasVM of
\* what get_machine_info makes of any three answers.
VmValues ==
  {FalseValue} \cup
  { GigasVM(WithIpAddresses(b, ScanIps(ips, ids, <<>>))) :
      b \in VmBodies, ids \in InterfaceLists, ips \in IpLists }

\* The concurrent callers of SpecConcurrent, and a caller about to call
\* create_vm: where it is, the auth_retries it has loaded, the token it
\* was answered, the header string it has built, the Authorization header
\* its last request carried, its num_retries and how its call ended.
Threads == {1, 2}
ThreadStart ==
  [pc |-> "start", seen |-> 0, tok |-> "", header |-> "", sent |-> "",
   n |-> 0, result |-> ""]

\* ------------------------------------------------------------- Init
\* Gigas.__init__ up to the call of _update_temporary_token.
Init ==
  /\ pc = "init"
  /\ op = "__init__"
  /\ token = ""
  /\ headers = [Authorization |-> "", Accept |-> "application/json"]
  /\ auth_retries = 0
  /\ requests = <<>>
  /\ codes = <<>>
  /\ responses = <<>>
  /\ payload = NoData
  /\ transaction_id = 0
  /\ machine_id = 0
  /\ num_retries = 0
  /\ max_retries = 0
  /\ transaction_result = ""
  /\ vm_attributes = EmptyDict
  /\ interface_ids = <<>>
  /\ outcome = "running"
  /\ exc = ""
  /\ retval = ""
  /\ vm = Unbound
  /\ token_updates = 0
  /\ threads = [t \in Threads |-> ThreadStart]

\* ------------------------------------------------ returning and raising
Return(v) ==
  /\ pc' = "idle"
  /\ outcome' = "returned"
  /\ retval' = v
  /\ exc' = ""

Raise(e) ==
  /\ pc' = "idle"
  /\ outcome' = "raised"
  /\ retval' = ""
  /\ exc' = e

Continue(next) ==
  /\ pc' = next
  /\ UNCHANGED <<outcome, retval, exc>>

\* A top-level call starts: the locals and the transport's view are fresh.
Begin(name, first, p, tid, mid, max, v) ==
  /\ pc = "idle"
  /\ op' = name
  /\ pc' = first
  /\ outcome' = "running"
  /\ retval' = ""
  /\ exc' = ""
  /\ requests' = <<>>
  /\ codes' = <<>>
  /\ responses' = <<>>
  /\ payload' = p
  /\ transaction_id' = tid
  /\ machine_id' = mid
  /\ num_retries' = 0
  /\ max_retries' = max
  /\ transaction_result' = ""
  /\ vm_attributes' = EmptyDict
  /\ interface_ids' = <<>>
  /\ vm' = v
  /\ UNCHANGED <<token, headers, auth_retries, token_updates, threads>>

\* Mutant of UpdateTemporaryToken: the token is stored and the header is
\* not rebuilt from it.
UpdateTemporaryToken_StaleHeader(body) ==
  /\ requests' = Append(requests, Request("POST", api_endpoint \o "/token",
                                          {}, Credentials))
  /\ token_updates' = token_updates + 1
  /\ token' = IF "token" \in body.keys THEN body.token ELSE token
  /\ UNCHANGED headers

\* Mutant of UpdateTemporaryToken: an answer without a token is stored as
\* an empty token.
UpdateTemporaryToken_StoresMissing(body) ==
  /\ requests' = Append(requests, Request("POST", api_endpoint \o "/token",
                                          {}, Credentials))
  /\ token_updates' = token_updates + 1
  /\ token' = body.token
  /\ headers' = [headers EXCEPT
                   !.Authorization = "Gigas token=" \o body.token]

\* Mutant of UpdateTemporaryToken: the headers are built anew, without
\* Accept.
UpdateTemporaryToken_DropsAccept(body) ==
  /\ requests' = Append(requests, Request("POST", api_endpoint \o "/token",
                                          {}, Credentials))
  /\ token_updates' = token_updates + 1
  /\ IF "token" \in body.keys
       THEN /\ token' = body.token
            /\ headers' = [Authorization |-> "Gigas token=" \o body.token,
                           Accept |-> ""]
       ELSE UNCHANGED <<token, headers>>

\* _update_temporary_token: the token and the Authorization header change
\* only when the answer has a token (else line 63 raises KeyError).
UpdateTemporaryToken(body) ==
  /\ requests' = Append(requests, TokenRequest)
  /\ token_updates' = token_updates + 1
  /\ IF "token" \in body.keys
       THEN /\ token' = body.token
            /\ headers' = [headers EXCEPT
                             !.Authorization = AuthorizationHeader(body.token)]
       ELSE UNCHANGED <<token, headers>>

\* -------------------------------------------------------- __init__
Construct(body) ==
  /\ pc = "init"
  /\ UpdateTemporaryToken(body)
  /\ IF "token" \in body.keys
       THEN Return("Gigas") /\ auth_retries' = 0
       ELSE /\ pc' = "failed"
            /\ outcome' = "raised"
            /\ exc' = "KeyError"
            /\ UNCHANGED <<retval, auth_retries>>
  /\ UNCHANGED threads
  /\ UNCHANGED <<op, codes, responses, payload, transaction_id, machine_id,
                 num_retries, max_retries, transaction_result, vm_attributes,
                 interface_ids, vm>>

\* ------------------------------------------- _wait_for_transaction
\* A direct call: _wait_for_transaction(tid, max_retries=max).
WaitCall(tid, max) ==
  Begin("_wait_for_transaction", "wait", NoData, tid, 0, max, Unbound)

\* _wait_for_transaction returns result to the operation that called it.
\* create_vm goes on to get_machine_info or returns False (the caller
\* binds it to vm); delete_vm drops the result, and its `del vm` unbinds
\* only its own parameter.
WaitReturns(result) ==
  /\ transaction_result' = result
  /\ IF op = "create_vm"
       THEN IF FetchAfterWait(result)
              THEN Continue("machine") /\ UNCHANGED vm
              ELSE Return("False") /\ vm' = FalseValue
       ELSE IF op = "delete_vm"
         THEN Return("None") /\ UNCHANGED vm
         ELSE Return(result) /\ UNCHANGED vm

\* One pass of the while loop: the status GET and what follows it.
WaitPoll(body) ==
  /\ pc = "wait"
  /\ requests' = Append(requests, StatusRequest(transaction_id, headers))
  /\ responses' = Append(responses, body)
  /\ LET c == Classify(body) IN
     IF c = "KeyError"
       THEN /\ Raise("KeyError")
            /\ UNCHANGED <<num_retries, transaction_result, vm>>
     ELSE IF c = "Retry"
       THEN /\ num_retries' = num_retries + 1
            /\ IF TooManyRetries(num_retries + 1, max_retries)
                 THEN WaitReturns("Timeout")
                 ELSE Continue("wait") /\ UNCHANGED <<transaction_result, vm>>
     ELSE /\ WaitReturns(c)
          /\ UNCHANGED num_retries
  /\ UNCHANGED <<token_updates, threads>>
  /\ UNCHANGED <<op, token, headers, auth_retries, codes, payload,
                 transaction_id, machine_id, max_retries, vm_attributes,
                 interface_ids>>

\* ------------------------------------------------------ get_machine_info
GetMachineInfoCall(mid) ==
  Begin("get_machine_info", "machine", NoData, 0, mid, 0, Unbound)

\* GET /virtual_machine/{id}: vm_attributes = res.json()
GetMachine(body) ==
  /\ pc = "machine"
  /\ requests' = Append(requests, MachineRequest(machine_id, headers))
  /\ vm_attributes' = body
  /\ Continue("interfaces")
  /\ UNCHANGED <<token_updates, threads>>
  /\ UNCHANGED <<op, token, headers, auth_retries, codes, responses, payload,
                 transaction_id, machine_id, num_retries, max_retries,
                 transaction_result, interface_ids, vm>>

\* GET .../network_interfaces: interface_ids is a generator over the ids.
GetInterfaces(ids) ==
  /\ pc = "interfaces"
  /\ requests' = Append(requests, InterfacesRequest(machine_id, headers))
  /\ interface_ids' = ids
  /\ Continue("ip_addresses")
  /\ UNCHANGED <<token_updates, threads>>
  /\ UNCHANGED <<op, token, headers, auth_retries, codes, responses, payload,
                 transaction_id, machine_id, num_retries, max_retries,
                 transaction_result, vm_attributes, vm>>

\* GET /ip_addresses, the for loop and the return; create_vm wraps the
\* mapping in a GigasVM, which its caller binds to vm.
GetIpAddresses(ips) ==
  /\ pc = "ip_addresses"
  /\ requests' = Append(requests, IpAddressesRequest(headers))
  /\ vm_attributes' =
       WithIpAddresses(vm_attributes, ScanIps(ips, interface_ids, <<>>))
  /\ interface_ids' = <<>>
  /\ IF op = "create_vm"
       THEN Return("GigasVM") /\ vm' = GigasVM(vm_attributes')
       ELSE Return("dict") /\ UNCHANGED vm
  /\ UNCHANGED <<token_updates, threads>>
  /\ UNCHANGED <<op, token, headers, auth_retries, codes, responses, payload,
                 transaction_id, machine_id, num_retries, max_retries,
                 transaction_result>>

\* ------------------------------------------------------------- create_vm
CreateCall(p) == Begin("create_vm", "post", p, 0, 0, 0, Unbound)

\* transaction_id = res.json()["queue_token"], machine_id =
\* res.json()["resource"]["id"], then _wait_for_transaction(transaction_id).
ReadQueued(res) ==
  IF {"queue_token", "resource"} \subseteq res.keys
    THEN /\ transaction_id' = res.queue_token
         /\ machine_id' = res.resource_id
         /\ max_retries' = DefaultMaxRetries
         /\ Continue("wait")
    ELSE /\ Raise("KeyError")
         /\ UNCHANGED <<transaction_id, machine_id, max_retries>>

\* The first POST /virtual_machine and the branch on its status code.
CreatePost(res) ==
  /\ pc = "post"
  /\ res.status_code = Unauthorized => auth_retries < MaxAuthRetries
  /\ requests' = Append(requests, CreateRequest(payload, headers))
  /\ codes' = Append(codes, res.status_code)
  /\ IF res.status_code = Unauthorized
       THEN /\ auth_retries' = auth_retries + 1
            /\ IF MayRefresh(auth_retries + 1)
                 THEN Continue("refresh")
                 ELSE Raise("HTTPError")
            /\ UNCHANGED <<transaction_id, machine_id, max_retries>>
       ELSE /\ ReadQueued(res)
            /\ UNCHANGED auth_retries
  /\ UNCHANGED <<token_updates, threads>>
  /\ UNCHANGED <<op, token, headers, responses, payload, num_retries,
                 transaction_result, vm_attributes, interface_ids, vm>>

\* self._update_temporary_token() after the first 401.
CreateRefresh(body) ==
  /\ pc = "refresh"
  /\ UpdateTemporaryToken(body)
  /\ IF "token" \in body.keys THEN Continue("repost") ELSE Raise("KeyError")
  /\ UNCHANGED threads
  /\ UNCHANGED <<op, auth_retries, codes, responses, payload, transaction_id,
                 machine_id, num_retries, max_retries, transaction_result,
                 vm_attributes, interface_ids, vm>>

\* The second POST /virtual_machine; its status code is not looked at.
CreateRepost(res) ==
  /\ pc = "repost"
  /\ requests' = Append(requests, CreateRequest(payload, headers))
  /\ codes' = Append(codes, res.status_code)
  /\ ReadQueued(res)
  /\ UNCHANGED <<token_updates, threads>>
  /\ UNCHANGED <<op, token, headers, auth_retries, responses, payload,
                 num_retries, transaction_result, vm_attributes,
                 interface_ids, vm>>

\* ------------------------------------------------------------- delete_vm
\* g.delete_vm(vm): the caller passes what a create_vm returned to it.
DeleteCall(v) == Begin("delete_vm", "delete", NoData, 0, 0, 0, v)

\* str(vm.id) raises AttributeError when vm has no id (False, or a
\* GigasVM built from a mapping without it); else the DELETE is sent and
\* the queue_token of the answer is waited on, whatever the status code.
DeleteVm(res) ==
  /\ pc = "delete"
  /\ IF vm.type = "GigasVM" /\ "id" \in vm.attrs.keys
       THEN /\ requests' =
                 Append(requests, DeleteRequest(vm.attrs.id, headers))
            /\ codes' = Append(codes, res.status_code)
            /\ IF "queue_token" \in res.keys
                 THEN /\ transaction_id' = res.queue_token
                      /\ max_retries' = DefaultMaxRetries
                      /\ Continue("wait")
                 ELSE /\ Raise("KeyError")
                      /\ UNCHANGED <<transaction_id, max_retries>>
       ELSE /\ Raise("AttributeError")
            /\ UNCHANGED <<requests, codes, transaction_id, max_retries>>
  /\ UNCHANGED <<token_updates, threads>>
  /\ UNCHANGED <<op, token, headers, auth_retries, responses, payload,
                 machine_id, num_retries, transaction_result, vm_attributes,
                 interface_ids, vm>>

\* ------------------------------------------------------ the specification
Next ==
  \/ \E body \in TokenBodies : Construct(body)
  \/ \E tid \in TransactionIds, max \in (-1)..MaxRetries :
       WaitCall(tid, max)
  \/ \E body \in StatusBodies : WaitPoll(body)
  \/ \E mid \in MachineIds : GetMachineInfoCall(mid)
  \/ \E body \in VmBodies : GetMachine(body)
  \/ \E ids \in InterfaceLists : GetInterfaces(ids)
  \/ \E ips \in IpLists : GetIpAddresses(ips)
  \/ \E p \in Payloads : CreateCall(p)
  \/ \E res \in QueuedResponses : CreatePost(res)
  \/ \E body \in TokenBodies : CreateRefresh(body)
  \/ \E res \in QueuedResponses : CreateRepost(res)
  \/ \E v \in VmValues : DeleteCall(v)
  \/ \E res \in QueuedResponses : DeleteVm(res)

Spec == Init /\ [][Next]_vars

\* get_machine_info alone, called on a constructed instance, over the
\* longer answers.
NextScan ==
  \/ \E body \in TokenBodies : Construct(body)
  \/ \E mid \in MachineIds : GetMachineInfoCall(mid)
  \/ \E body \in VmBodies : GetMachine(body)
  \/ \E ids \in ScanInterfaceLists : GetInterfaces(ids)
  \/ \E ips \in ScanIpLists : GetIpAddresses(ips)

SpecScan == Init /\ [][NextScan]_vars

\* ------------------------------------------- create_vm, called concurrently
\* Two threads call create_vm on one constructed instance. The instance
\* has no lock, and the interpreter may switch threads between any two
\* bytecode instructions: a step is one read or write of the shared
\* self.token, self.headers or self.auth_retries, or one request.

\* What the sequential operations use is left alone by the threads.
sequential_vars ==
  <<pc, op, requests, codes, responses, payload, transaction_id, machine_id,
    num_retries, max_retries, transaction_result, vm_attributes,
    interface_ids, outcome, exc, retval, vm>>

\* Thread t goes on as rec.
ThreadStep(t, rec) ==
  /\ pc = "idle"
  /\ op = "__init__"
  /\ threads' = [threads EXCEPT ![t] = rec]
  /\ UNCHANGED sequential_vars

\* Thread t ends its call with result v.
ThreadEnds(t, rec, v) ==
  ThreadStep(t, [rec EXCEPT !.pc = "done", !.result = v])

\* After a POST that is not looked at for a 401: the queue_token and the
\* resource id are read, then the wait starts.
ThreadReadQueued(t, rec, res) ==
  IF {"queue_token", "resource"} \subseteq res.keys
    THEN ThreadStep(t, [rec EXCEPT !.pc = "wait", !.n = 0])
    ELSE ThreadEnds(t, rec, "KeyError")

\* The first POST /virtual_machine, with the headers as they are now.
ThreadPost(t, res) ==
  /\ threads[t].pc = "start"
  /\ LET rec == [threads[t] EXCEPT !.sent = headers.Authorization] IN
     IF res.status_code = Unauthorized
       THEN ThreadStep(t, [rec EXCEPT !.pc = "load"])
       ELSE ThreadReadQueued(t, rec, res)
  /\ UNCHANGED <<token, headers, auth_retries, token_updates>>

\* self.auth_retries += 1, its read.
ThreadLoadRetries(t) ==
  /\ threads[t].pc = "load"
  /\ ThreadStep(t, [threads[t] EXCEPT !.pc = "store", !.seen = auth_retries])
  /\ UNCHANGED <<token, headers, auth_retries, token_updates>>

\* self.auth_retries += 1, its write.
ThreadStoreRetries(t) ==
  /\ threads[t].pc = "store"
  /\ auth_retries' = threads[t].seen + 1
  /\ ThreadStep(t, [threads[t] EXCEPT !.pc = "test"])
  /\ UNCHANGED <<token, headers, token_updates>>

\* if self.auth_retries < 2, on the shared counter as it is now.
ThreadTest(t) ==
  /\ threads[t].pc = "test"
  /\ IF MayRefresh(auth_retries)
       THEN ThreadStep(t, [threads[t] EXCEPT !.pc = "token"])
       ELSE ThreadEnds(t, threads[t], "HTTPError")
  /\ UNCHANGED <<token, headers, auth_retries, token_updates>>

\* _update_temporary_token, line 61: the POST /token and its answer.
ThreadTokenPost(t, body) ==
  /\ threads[t].pc = "token"
  /\ token_updates' = token_updates + 1
  /\ IF "token" \in body.keys
       THEN ThreadStep(t, [threads[t] EXCEPT !.pc = "set_token",
                                             !.tok = body.token])
       ELSE ThreadEnds(t, threads[t], "KeyError")
  /\ UNCHANGED <<token, headers, auth_retries>>

\* _update_temporary_token, line 63: self.token = res.json()["token"]
ThreadSetToken(t) ==
  /\ threads[t].pc = "set_token"
  /\ token' = threads[t].tok
  /\ ThreadStep(t, [threads[t] EXCEPT !.pc = "build"])
  /\ UNCHANGED <<headers, auth_retries, token_updates>>

\* _update_temporary_token, line 65, right-hand side: the string is built
\* from self.token as it is now.
ThreadBuildHeader(t) ==
  /\ threads[t].pc = "build"
  /\ ThreadStep(t, [threads[t] EXCEPT !.pc = "set_header",
                                      !.header = AuthorizationHeader(token)])
  /\ UNCHANGED <<token, headers, auth_retries, token_updates>>

\* _update_temporary_token, line 65, the store into self.headers.
ThreadSetHeader(t) ==
  /\ threads[t].pc = "set_header"
  /\ headers' = [headers EXCEPT !.Authorization = threads[t].header]
  /\ ThreadStep(t, [threads[t] EXCEPT !.pc = "repost"])
  /\ UNCHANGED <<token, auth_retries, token_updates>>

\* The second POST /virtual_machine; its status code is not looked at.
ThreadRepost(t, res) ==
  /\ threads[t].pc = "repost"
  /\ ThreadReadQueued(t, [threads[t] EXCEPT !.sent = headers.Authorization],
                      res)
  /\ UNCHANGED <<token, headers, auth_retries, token_updates>>

\* One pass of the loop of _wait_for_transaction, then the branch of
\* create_vm on its result.
ThreadPoll(t, body) ==
  /\ threads[t].pc = "wait"
  /\ LET rec == [threads[t] EXCEPT !.sent = headers.Authorization]
         c == Classify(body)
     IN  IF c = "KeyError"
           THEN ThreadEnds(t, rec, "KeyError")
         ELSE IF c = "Retry"
           THEN IF TooManyRetries(rec.n + 1, DefaultMaxRetries)
                  THEN ThreadEnds(t, [rec EXCEPT !.n = @ + 1], "False")
                  ELSE ThreadStep(t, [rec EXCEPT !.n = @ + 1])
         ELSE IF FetchAfterWait(c)
           THEN ThreadStep(t, [rec EXCEPT !.pc = "machine"])
           ELSE ThreadEnds(t, rec, "False")
  /\ UNCHANGED <<token, headers, auth_retries, token_updates>>

\* The three GETs of get_machine_info, one a step; after the last one
\* create_vm returns the GigasVM.
ThreadGetMachineInfo(t) ==
  /\ threads[t].pc \in {"machine", "interfaces", "ip_addresses"}
  /\ LET rec == [threads[t] EXCEPT !.sent = headers.Authorization] IN
     IF rec.pc = "machine"
       THEN ThreadStep(t, [rec EXCEPT !.pc = "interfaces"])
     ELSE IF rec.pc = "interfaces"
       THEN ThreadStep(t, [rec EXCEPT !.pc = "ip_addresses"])
     ELSE ThreadEnds(t, rec, "GigasVM")
  /\ UNCHANGED <<token, headers, auth_retries, token_updates>>

NextConcurrent ==
  \/ \E body \in TokenBodies : Construct(body)
  \/ \E t \in Threads, res \in QueuedResponses : ThreadPost(t, res)
  \/ \E t \in Threads : ThreadLoadRetries(t)
  \/ \E t \in Threads : ThreadStoreRetries(t)
  \/ \E t \in Threads : ThreadTest(t)
  \/ \E t \in Threads, body \in TokenBodies : ThreadTokenPost(t, body)
  \/ \E t \in Threads : ThreadSetToken(t)
  \/ \E t \in Threads : ThreadBuildHeader(t)
  \/ \E t \in Threads : ThreadSetHeader(t)
  \/ \E t \in Threads, res \in QueuedResponses : ThreadRepost(t, res)
  \/ \E t \in Threads, body \in StatusBodies : ThreadPoll(t, body)
  \/ \E t \in Threads : ThreadGetMachineInfo(t)

SpecConcurrent == Init /\ [][NextConcurrent]_vars

\* ============================================================ the claims
\* What the transport saw of the running (or last) operation.
Count(P(_)) == Cardinality({ i \in 1..Len(requests) : P(requests[i]) })
IsStatusGet(r) == r.method = "GET" /\ r.url = StatusUrl(transaction_id)
IsCreatePost(r) == r.method = "POST" /\ r.url = CreateUrl
IsTokenPost(r) == r = TokenRequest
IsMachineGet(r) == r.method = "GET" /\ r.url = MachineUrl(machine_id)
IsDelete(r) == r.method = "DELETE"
IsSleep(r) == r.method = "sleep"
StatusGets == Count(IsStatusGet)
CreatePosts == Count(IsCreatePost)
TokenPosts == Count(IsTokenPost)
MachineGets == Count(IsMachineGet)
Deletes == Count(IsDelete)

\* The kinds of status body the claims speak of.
NonTerminal(b) ==
  "error" \notin b.keys /\ "status" \in b.keys /\ b.status # "complete"
IsComplete(b) ==
  "error" \notin b.keys /\ "status" \in b.keys /\ b.status = "complete"
IsNotFound(b) == "error" \in b.keys /\ b.error = "Transaction not found"
IsOtherError(b) == "error" \in b.keys /\ b.error # "Transaction not found"
\* The k-th status response is the first that is not non-terminal.
FirstTerminalAt(k) ==
  /\ k \in 1..Len(responses)
  /\ \A j \in 1..(k - 1) : NonTerminal(responses[j])
\* The wait has returned and polls no more.
WaitOver == pc # "wait"

\* C1 as stated, for every max_retries, on the sequences whose responses
\* are all non-terminal: the wait that has returned returned "Timeout",
\* after exactly max_retries status GETs.
C1_TimeoutAfterMaxRetries_AnyMax ==
  ( /\ transaction_result # ""
    /\ \A j \in 1..Len(responses) : NonTerminal(responses[j]) )
  => /\ transaction_result = "Timeout"
     /\ StatusGets = max_retries

\* C1 amended: for every max_retries >= 1, a wait whose first max_retries
\* responses are all non-terminal returns "Timeout" after exactly
\* max_retries status GETs, and "Timeout" is returned in no other case.
C1_TimeoutAfterMaxRetries ==
  max_retries >= 1 =>
    /\ transaction_result = "Timeout" =>
         /\ StatusGets = max_retries
         /\ Len(responses) = max_retries
         /\ \A j \in 1..max_retries : NonTerminal(responses[j])
    /\ ( /\ Len(responses) >= max_retries
         /\ \A j \in 1..max_retries : NonTerminal(responses[j]) )
       => /\ transaction_result = "Timeout"
          /\ StatusGets = max_retries
          /\ WaitOver

C1_Witness ==
  /\ op = "_wait_for_transaction"
  /\ max_retries = MaxRetries
  /\ transaction_result = "Timeout"
  /\ retval = "Timeout"
  /\ StatusGets = MaxRetries

\* C2: when the k-th status response, k <= max_retries, is the first that
\* is not non-terminal and has status "complete" and no error, the wait
\* returns "Complete" after exactly k status GETs and polls no more.
C2_CompleteAfterKPolls ==
  \A k \in 1..Len(responses) :
    (FirstTerminalAt(k) /\ k <= max_retries /\ IsComplete(responses[k]))
    => /\ transaction_result = "Complete"
       /\ StatusGets = k
       /\ Len(responses) = k
       /\ WaitOver

C2_Witness ==
  /\ op = "_wait_for_transaction"
  /\ max_retries = MaxRetries
  /\ Len(responses) = MaxRetries
  /\ IsComplete(responses[MaxRetries])
  /\ retval = "Complete"

\* C3: when a status response has the error "Transaction not found", after
\* any number of non-terminal responses, the wait returns "Not found" on
\* that response: it is not counted in num_retries and no further status
\* GET is issued.
C3_NotFoundReturnsAtOnce ==
  \A k \in 1..Len(responses) :
    (FirstTerminalAt(k) /\ IsNotFound(responses[k]))
    => /\ transaction_result = "Not found"
       /\ num_retries = k - 1
       /\ StatusGets = k
       /\ Len(responses) = k
       /\ WaitOver

C3_Witness ==
  /\ op = "_wait_for_transaction"
  /\ max_retries = MaxRetries
  /\ Len(responses) = MaxRetries
  /\ IsNotFound(responses[MaxRetries])
  /\ num_retries = MaxRetries - 1
  /\ retval = "Not found"

\* C4: when a status response has an error other than "Transaction not
\* found", the wait returns "Error" on that response and polls no more,
\* also when the same body has status "complete".
C4_OtherErrorReturnsError ==
  \A k \in 1..Len(responses) :
    (FirstTerminalAt(k) /\ IsOtherError(responses[k]))
    => /\ transaction_result = "Error"
       /\ StatusGets = k
       /\ Len(responses) = k
       /\ WaitOver

C4_Witness ==
  /\ op = "_wait_for_transaction"
  /\ Len(responses) = 2
  /\ responses[2] = StatusBody("Internal error", "complete")
  /\ retval = "Error"

\* C5: between two consecutive status GETs of one wait there is exactly
\* one sleep.  (The loop never calls sleep: no request log holds one.)
C5_OneSleepBetweenPolls ==
  \A i, j \in 1..Len(requests) :
    ( /\ i < j
      /\ IsStatusGet(requests[i])
      /\ IsStatusGet(requests[j])
      /\ \A k \in (i + 1)..(j - 1) : ~IsStatusGet(requests[k]) )
    => Cardinality({ k \in (i + 1)..(j - 1) : IsSleep(requests[k]) }) = 1

\* C6 as stated, for every max_retries: a wait issues at most max_retries
\* status GETs and a create_vm call at most two POST /virtual_machine.
C6_RetriesBounded_AnyMax ==
  /\ StatusGets <= max_retries
  /\ CreatePosts <= 2

\* C6 amended: a wait issues at most max_retries status GETs when
\* max_retries >= 1, and one status GET when max_retries <= 0; a create_vm
\* call sends at most two POST /virtual_machine and one token request.
C6_RetriesBounded ==
  /\ max_retries >= 1 => StatusGets <= max_retries
  /\ max_retries <= 0 => StatusGets <= 1
  /\ CreatePosts <= 2
  /\ TokenPosts <= 1
  /\ op # "create_vm" => CreatePosts = 0

C6_Witness ==
  /\ op = "create_vm"
  /\ CreatePosts = 2
  /\ max_retries = DefaultMaxRetries
  /\ StatusGets = DefaultMaxRetries
  /\ transaction_result = "Timeout"

\* The token request of create_vm's refresh got no token.
RefreshFailed == outcome = "raised" /\ exc = "KeyError" /\ Len(requests) = 2

\* C7, what holds once the first POST of a create_vm was answered 401 and
\* the counter stands at 1.
C7_AfterFirst401 ==
  (op = "create_vm" /\ codes # <<>> /\ codes[1] = Unauthorized
   /\ auth_retries = 1)
  => /\ TokenPosts <= 1
     /\ CreatePosts <= 2
     /\ IsCreatePost(requests[1])
     /\ pc # "refresh" => TokenPosts = 1 /\ requests[2] = TokenRequest
     /\ (pc # "refresh" /\ ~RefreshFailed)
        => headers.Authorization = "Gigas token=" \o token
     /\ (pc \notin {"refresh", "repost"} /\ ~RefreshFailed)
        => /\ CreatePosts = 2
           /\ Len(codes) = 2
           /\ requests[3].method = "POST"
           /\ requests[3].url = CreateUrl
           /\ requests[3].data = requests[1].data
           /\ requests[3].headers =
                { <<"Authorization", "Gigas token=" \o token>>,
                  <<"Accept", "application/json">> }

\* C7, the step: a 401 to the first POST with the counter at 0 brings the
\* counter to 1 and the client to the token request.
C7_First401Step ==
  (pc = "post" /\ auth_retries = 0 /\ codes' = <<Unauthorized>>)
  => (auth_retries' = 1 /\ pc' = "refresh" /\ token' = token)

\* C7: in a create_vm call on an instance whose auth_retries is 0, a 401
\* to the first POST makes the client set auth_retries to 1, request a
\* token exactly once and, given a token, send the same POST exactly once
\* more, with the Authorization header built from the new token.
C7_RefreshAndResendOnce == []C7_AfterFirst401 /\ [][C7_First401Step]_vars

C7_Witness ==
  /\ op = "create_vm"
  /\ codes = <<Unauthorized, 200>>
  /\ auth_retries = 1
  /\ pc = "wait"
  /\ Len(requests) = 3
  /\ requests[3].headers # requests[1].headers
  /\ requests[3].data = requests[1].data

\* C8: when the first POST of a create_vm and its retry after the token
\* refresh are both answered 401, the call fails with the HTTP error of the
\* 401: no third POST, no status GET, no VM.
C8_Second401IsFatal ==
  (op = "create_vm" /\ codes = <<Unauthorized, Unauthorized>>)
  => /\ outcome = "raised"
     /\ exc = "HTTPError"
     /\ CreatePosts = 2
     /\ StatusGets = 0
     /\ vm.type # "GigasVM"

\* C9: when the DELETE of a delete_vm is answered 401, the client requests
\* a token once and sends the DELETE once more before it reads the
\* queue_token and waits.
C9_DeleteRetriesAfter401 ==
  (op = "delete_vm" /\ codes # <<>> /\ codes[1] = Unauthorized)
  => /\ Len(requests) >= 2 => requests[2] = TokenRequest
     /\ (StatusGets > 0 \/ outcome # "running")
        => TokenPosts = 1 /\ Deletes = 2

\* The place of the first request r with P(r), 0 if there is none.
FirstAt(P(_)) ==
  IF \E i \in 1..Len(requests) : P(requests[i])
    THEN CHOOSE i \in 1..Len(requests) :
           P(requests[i]) /\ \A j \in 1..(i - 1) : ~P(requests[j])
    ELSE 0

\* C10: create_vm requests the machine (the resource id of the create
\* answer) only after the wait has returned, and only on "Complete" or
\* "Not found"; in exactly these two cases it returns a GigasVM built from
\* the attributes fetched, else no GigasVM.
C10_FetchOnlyAfterGoodWait ==
  op = "create_vm" =>
    /\ MachineGets > 0 =>
         /\ transaction_result \in {"Complete", "Not found"}
         /\ MachineGets = 1
         /\ LET first == FirstAt(IsMachineGet) IN
            \A i \in 1..Len(requests) :
              IsStatusGet(requests[i]) => i < first
    /\ (transaction_result \in {"Complete", "Not found"}
        /\ outcome = "returned")
       => /\ retval = "GigasVM"
          /\ vm.type = "GigasVM"
          /\ vm.attrs = vm_attributes
          /\ MachineGets = 1
    /\ (transaction_result \in {"Complete", "Not found"} /\ pc = "machine")
       => MachineGets = 0
    /\ (outcome = "returned"
        /\ transaction_result \notin {"Complete", "Not found"})
       => /\ retval = "False"
          /\ vm.type # "GigasVM"
          /\ MachineGets = 0
    /\ outcome = "raised" => vm.type # "GigasVM"

C10_Witness ==
  /\ op = "create_vm"
  /\ transaction_result = "Not found"
  /\ outcome = "returned"
  /\ retval = "GigasVM"
  /\ "id" \in vm.attrs.keys
  /\ "ip_addresses" \in vm.attrs.keys
  /\ StatusGets = 2

\* C11: when the wait of a create_vm ended "Error" or "Timeout", create_vm
\* fails with an error; it does not return normally with a value, and it
\* has fetched no machine info.
C11_FailedWaitRaises ==
  (op = "create_vm" /\ transaction_result \in {"Error", "Timeout"})
  => /\ outcome = "raised"
     /\ MachineGets = 0

\* C12: when the wait of a delete_vm ended "Error" or "Timeout", delete_vm
\* surfaces an error to its caller; it returns normally only when the wait
\* did not fail.
C12_FailedDeleteRaises ==
  (op = "delete_vm" /\ transaction_result \in {"Error", "Timeout"})
  => outcome = "raised"

\* The addresses of the entries of ips whose interface_id is the id of
\* some interface of ids, in the order of ips.
MatchingAddresses(ips, ids) ==
  LET OfMachine(ip) == \E k \in 1..Len(ids) : ids[k] = ip.interface_id
      kept == SelectSeq(ips, OfMachine)
  IN  [k \in 1..Len(kept) |-> kept[k].address]

\* C13: for every list of interfaces and every list of /ip_addresses,
\* get_machine_info sets ip_addresses to the addresses of exactly the
\* entries whose interface_id is the id of some returned interface, in the
\* order the list is scanned, whatever entries were tested before.
C13_IpAddressesByMembership ==
  [][\A ips \in ScanIpLists :
       GetIpAddresses(ips)
       => vm_attributes'.ip_addresses = MatchingAddresses(ips, interface_ids)
    ]_vars

\* C14: after delete_vm(vm) has returned normally, the caller's handle is
\* invalidated: it is no longer a GigasVM whose id can be read or that can
\* be passed to delete_vm again.
C14_HandleInvalidated ==
  (op = "delete_vm" /\ outcome = "returned")
  => ~(vm.type = "GigasVM" /\ "id" \in vm.attrs.keys)

\* C15: when GET /virtual_machine/{id} was answered with an empty or error
\* body (no id in it), get_machine_info has failed: it has returned no
\* mapping, and create_vm has built no GigasVM from the body.
C15_MissingVmRaises ==
  ( /\ op \in {"get_machine_info", "create_vm"}
    /\ pc = "idle"
    /\ MachineGets = 1
    /\ "id" \notin vm_attributes.keys )
  => /\ outcome = "raised"
     /\ retval \notin {"dict", "GigasVM"}
     /\ vm.type # "GigasVM"

\* An operation on a constructed instance has started and has sent nothing.
OperationStarts == op # "__init__" /\ outcome = "running" /\ requests = <<>>

\* C16: the auth retry counter is 0 at the start of every operation and
\* never exceeds 2.
C16_CounterResetPerOperation ==
  /\ OperationStarts => auth_retries = 0
  /\ auth_retries <= 2

\* A step that sends the token request.
TokenRequestStep == requests' = Append(requests, TokenRequest)

\* C17, the states: once the instance is constructed the token is one a
\* token request returned and the Authorization header is built from it;
\* the token is empty only before the first successful token request.
C17_TokenSet ==
  /\ token = "" <=> pc \in {"init", "failed"}
  /\ token # "" => /\ token \in Tokens
                   /\ headers.Authorization = "Gigas token=" \o token

\* C17, the steps: a token request answered with a token stores that token
\* and the header built from it; one answered without a token leaves both
\* as they were; no other step changes the token.
C17_TokenStep ==
  /\ \A body \in TokenBodies :
       (Construct(body) \/ CreateRefresh(body))
       => IF "token" \in body.keys
            THEN /\ token' = body.token
                 /\ headers'.Authorization = "Gigas token=" \o body.token
            ELSE token' = token /\ headers' = headers
  /\ ~TokenRequestStep => token' = token

\* C17: in every state the stored token is the one returned by the most
\* recent successful token request; it is empty only before the first
\* successful one, and a failed token request leaves the token and the
\* Authorization header unchanged.
C17_TokenIsLatest == []C17_TokenSet /\ [][C17_TokenStep]_vars

\* A refresh was answered without a token: the token of the constructor
\* is still stored and still in the header.
C17_Witness ==
  /\ op = "create_vm"
  /\ RefreshFailed
  /\ token_updates = 2
  /\ token \in Tokens
  /\ headers.Authorization = "Gigas token=" \o token

\* C18, the steps: the token and the headers change only in the step of
\* _update_temporary_token, called from the constructor or after a 401,
\* and Accept does not change even there.
C18_FrameStep ==
  /\ (token' # token \/ headers' # headers)
     => pc \in {"init", "refresh"} /\ TokenRequestStep
  /\ headers'.Accept = headers.Accept

\* C18, the states: _wait_for_transaction, get_machine_info, delete_vm and
\* a create_vm that received no 401 have sent no token request, and Accept
\* is what the constructor set.
C18_FrameState ==
  /\ headers.Accept = "application/json"
  /\ DOMAIN headers = {"Authorization", "Accept"}
  /\ op \in {"_wait_for_transaction", "get_machine_info", "delete_vm"}
     => TokenPosts = 0
  /\ (op = "create_vm" /\ \A i \in 1..Len(codes) : codes[i] # Unauthorized)
     => TokenPosts = 0

\* C18: only _update_temporary_token changes the token and the headers,
\* and it never changes Accept; the other operations leave both unchanged.
C18_OnlyTokenUpdateChangesHeaders == []C18_FrameState /\ [][C18_FrameStep]_vars

\* A create_vm that received no 401 ran to its GigasVM after a refreshed
\* instance: the headers are those the last token request left.
C18_Witness ==
  /\ op = "create_vm"
  /\ codes = <<200>>
  /\ retval = "GigasVM"
  /\ token_updates = 2
  /\ TokenPosts = 0
  /\ headers = [Authorization |-> "Gigas token=" \o token,
                Accept |-> "application/json"]

\* Thread t is inside _update_temporary_token.
InTokenUpdate(t) ==
  threads[t].pc \in {"token", "set_token", "build", "set_header"}

\* C19: with operations interleaved on one constructed instance, in every
\* state outside a running _update_temporary_token the Authorization
\* header is "Gigas token=" followed by the stored token, so that every
\* request sent from then on carries the header of the latest token.
C19_HeaderFollowsToken ==
  (pc = "idle" /\ \A t \in Threads : ~InTokenUpdate(t))
  => headers.Authorization = "Gigas token=" \o token

\* C20, the states: _update_temporary_token has run at most twice, the
\* second time only after a 401 was counted, and a refresh or a re-send is
\* under way only on the first 401 counted.
C20_OneRefresh ==
  /\ token_updates <= 2
  /\ token_updates = 2 => auth_retries >= 1
  /\ pc \in {"refresh", "repost"} => auth_retries = 1 /\ op = "create_vm"

\* C20, the steps: the counter never decreases, and a 401 to the POST of a
\* create_vm that starts with the counter at 1 or more is raised at once,
\* with no token request and no second POST.
C20_CounterStep ==
  /\ auth_retries' >= auth_retries
  /\ (pc = "post" /\ codes' = <<Unauthorized>> /\ auth_retries >= 1)
     => /\ pc' = "idle"
        /\ outcome' = "raised"
        /\ exc' = "HTTPError"
        /\ token_updates' = token_updates
        /\ token' = token
        /\ Len(requests') = 1

\* C20: under sequential use _update_temporary_token runs at most twice in
\* the lifetime of an instance, the retry counter never decreases, and
\* every 401 after the single refresh is raised without re-authentication
\* or re-send.
C20_AtMostTwoTokenUpdates == []C20_OneRefresh /\ [][C20_CounterStep]_vars

\* After the single refresh, a second later create_vm got a 401 and
\* raised it like the one before.
C20_Witness ==
  /\ op = "create_vm"
  /\ token_updates = 2
  /\ auth_retries = 3
  /\ codes = <<Unauthorized>>
  /\ exc = "HTTPError"
  /\ Len(requests) = 1

====
